---- MODULE Spec2Model ----
(***************************************************************************)
(* Model of merge_excel.py: the outer join of two Excel tables on a key    *)
(* column, its provenance summary and the output workbook.                 *)
(*                                                                         *)
(* A text is a sequence of glyphs (one-character strings, or a whole word  *)
(* for a column header); " " and "\t" are the whitespace glyphs.  A cell   *)
(* of a key column is a record [t, s, n]: t is the Python type of the      *)
(* value ("str", "int", "float", "nan"), s its text when t = "str", n its  *)
(* value when t is "int" or "float" (integer-valued floats only).          *)
(***************************************************************************)
EXTENDS Integers, Sequences, FiniteSets, TLC

VARIABLES pc, leftExists, rightExists, parsed, left_df, right_df,
          left_raw, right_raw, merged_df, summary_df, output, err

vars == <<pc, leftExists, rightExists, parsed, left_df, right_df,
          left_raw, right_raw, merged_df, summary_df, output, err>>

\* Largest number of rows of an input table.
MaxRows == 2

\* The integers stored in the numeric key cells.
KeyValues == {1, 2}

----------------------------------------------------------------------------
\* Texts

Whitespace == {" ", "\t"}

RECURSIVE LStrip(_)
LStrip(s) ==
    IF s # <<>> /\ Head(s) \in Whitespace THEN LStrip(Tail(s)) ELSE s

RECURSIVE RStrip(_)
RStrip(s) ==
    IF s # <<>> /\ s[Len(s)] \in Whitespace
    THEN RStrip(SubSeq(s, 1, Len(s) - 1))
    ELSE s

\* A plausible slip: only the leading whitespace is removed.
StripLeftOnly(s) == LStrip(s)

\* str.strip(): leading and trailing whitespace removed.
Strip(s) == RStrip(LStrip(s))

\* str(int): the decimal digits of n >= 0.
RECURSIVE Digits(_)
Digits(n) ==
    IF n < 10 THEN <<ToString(n)>>
    ELSE Digits(n \div 10) \o <<ToString(n % 10)>>

StrCell(s)   == [t |-> "str",   s |-> s,    n |-> 0]
IntCell(n)   == [t |-> "int",   s |-> <<>>, n |-> n]
FloatCell(n) == [t |-> "float", s |-> <<>>, n |-> n]
NaNCell      == [t |-> "nan",   s |-> <<>>, n |-> 0]

\* Series.astype(str) on one value: str(1) = "1", str(1.0) = "1.0",
\* str(float("nan")) = "nan", a str is kept.
AsStr(c) ==
    CASE c.t = "str"   -> c.s
      [] c.t = "int"   -> Digits(c.n)
      [] c.t = "float" -> Digits(c.n) \o <<".", "0">>
      [] c.t = "nan"   -> <<"n", "a", "n">>

----------------------------------------------------------------------------
\* Tables

key_column == <<"MATRICULA">>

NoDF == [columns |-> <<>>, dtype |-> "none", key |-> <<>>]

SeqsUpTo(S, lo, hi) == UNION {[1..k -> S] : k \in lo..hi}

\* The key columns pandas can hold: int64 (integers only), float64 (floats
\* and NaN), object (texts and NaN, at least one text), and the empty column.
IntColumns ==
    {[dtype |-> "int64", key |-> c] :
        c \in SeqsUpTo({IntCell(n) : n \in KeyValues}, 1, MaxRows)}

FloatColumns ==
    {[dtype |-> "float64", key |-> c] :
        c \in SeqsUpTo({FloatCell(1), NaNCell}, 1, MaxRows)}

ObjectValues ==
    {StrCell(<<"1">>), StrCell(<<" ", "1", "\t">>), StrCell(<<"1", ".", "0">>),
     NaNCell}

ObjectColumns ==
    {[dtype |-> "object", key |-> c] :
        c \in {d \in SeqsUpTo(ObjectValues, 1, MaxRows) :
                  \E i \in 1..Len(d) : d[i].t = "str"}}

KeyColumns ==
    IntColumns \cup FloatColumns \cup ObjectColumns
        \cup {[dtype |-> "object", key |-> <<>>]}

\* Header rows of a sheet, as written in the file.
KeyedHeaders ==
    { << <<"MATRICULA">>, <<"NOME">> >>,
      << <<" ", "MATRICULA", " ">>, <<"NOME">> >> }

OtherHeaders ==
    { << <<"ID">>, <<"SETOR">> >>,
      << <<" ", "NOME">> >>,
      << <<"MATRICULA">>, <<"MATRICULA", " ">> >> }

\* read_excel, line 76: every header is stripped.
StripHeaders(h) == [i \in 1..Len(h) |-> Strip(h[i])]

\* The tables read_excel can return.
Tables ==
    {[columns |-> StripHeaders(h), dtype |-> c.dtype, key |-> c.key] :
        h \in KeyedHeaders, c \in KeyColumns}
    \cup
    {[columns |-> StripHeaders(h), dtype |-> "none", key |-> <<>>] :
        h \in OtherHeaders}

Occurrences(cols, name) == Cardinality({i \in 1..Len(cols) : cols[i] = name})

\* key in df.columns
HasKey(df) == Occurrences(df.columns, key_column) >= 1

----------------------------------------------------------------------------

NoErr == [kind |-> "none", about |-> "none", available |-> <<>>, cause |-> "none"]

NoMerged == [made |-> FALSE, rows |-> {}]

NoSummary == [made |-> FALSE, rows |-> <<>>]

NoOutput == [state |-> "none", merge |-> {}, summary |-> <<>>]

Init ==
    /\ pc = "Idle"
    /\ leftExists \in BOOLEAN
    /\ rightExists \in BOOLEAN
    /\ parsed = {}
    /\ left_df = NoDF
    /\ right_df = NoDF
    /\ left_raw = <<>>
    /\ right_raw = <<>>
    /\ merged_df = NoMerged
    /\ summary_df = NoSummary
    /\ output = NoOutput
    /\ err = NoErr

\* A plausible slip: a failed run starts over instead of ending.
FailAndRetry(kind, about, available, cause) ==
    /\ pc' = "Idle"
    /\ err' = [kind |-> kind, about |-> about, available |-> available,
               cause |-> cause]

\* raise: the exception leaves main, the run ends.
Fail(kind, about, available, cause) ==
    /\ pc' = "Failed"
    /\ err' = [kind |-> kind, about |-> about, available |-> available,
               cause |-> cause]

\* A plausible slip: the right path is tested only after the left file was read.
CheckLeftOnly ==
    /\ pc = "Idle"
    /\ IF ~leftExists
       THEN Fail("FileNotFoundError", "left", <<>>, "none")
       ELSE pc' = "Checked" /\ err' = err
    /\ UNCHANGED <<leftExists, rightExists, parsed, left_df, right_df,
                   left_raw, right_raw, merged_df, summary_df, output>>

\* main, lines 120-123: both paths are tested before anything is read.
CheckInputs ==
    /\ pc = "Idle"
    /\ IF ~leftExists
       THEN Fail("FileNotFoundError", "left", <<>>, "none")
       ELSE IF ~rightExists
            THEN Fail("FileNotFoundError", "right", <<>>, "none")
            ELSE pc' = "Checked" /\ err' = err
    /\ UNCHANGED <<leftExists, rightExists, parsed, left_df, right_df,
                   left_raw, right_raw, merged_df, summary_df, output>>

\* read_excel, lines 66-77, for the left file: pandas fails (the file is
\* missing, unreadable, or has no such sheet) and the failure is wrapped in
\* a RuntimeError, or a table with stripped headers is returned.
ReadLeft ==
    /\ pc = "Checked"
    /\ parsed' = parsed \cup {"left"}
    /\ \/ /\ Fail("RuntimeError", "left", <<>>, "read")
          /\ UNCHANGED <<left_df, left_raw>>
       \/ /\ leftExists
          /\ \E t \in Tables : left_df' = t /\ left_raw' = t.key
          /\ pc' = "LeftLoaded"
          /\ err' = err
    /\ UNCHANGED <<leftExists, rightExists, right_df, right_raw,
                   merged_df, summary_df, output>>

\* read_excel for the right file, line 126.
ReadRight ==
    /\ pc = "LeftLoaded"
    /\ parsed' = parsed \cup {"right"}
    /\ \/ /\ Fail("RuntimeError", "right", <<>>, "read")
          /\ UNCHANGED <<right_df, right_raw>>
       \/ /\ rightExists
          /\ \E t \in Tables : right_df' = t /\ right_raw' = t.key
          /\ pc' = "Loaded"
          /\ err' = err
    /\ UNCHANGED <<leftExists, rightExists, left_df, left_raw,
                   merged_df, summary_df, output>>

\* ensure_key_column, lines 80-85: a KeyError that lists df.columns.
ensure_key_column(df, about, then) ==
    IF ~HasKey(df)
    THEN Fail("KeyError", about, df.columns, "none")
    ELSE pc' = then /\ err' = err

EnsureLeft ==
    /\ pc = "Loaded"
    /\ ensure_key_column(left_df, "left", "LeftValidated")
    /\ UNCHANGED <<leftExists, rightExists, parsed, left_df, right_df,
                   left_raw, right_raw, merged_df, summary_df, output>>

\* A plausible slip: the right table is not validated.
EnsureRightSkipped ==
    /\ pc = "LeftValidated"
    /\ pc' = "Validated"
    /\ UNCHANGED <<leftExists, rightExists, parsed, left_df, right_df,
                   left_raw, right_raw, merged_df, summary_df, output, err>>

EnsureRight ==
    /\ pc = "LeftValidated"
    /\ ensure_key_column(right_df, "right", "Validated")
    /\ UNCHANGED <<leftExists, rightExists, parsed, left_df, right_df,
                   left_raw, right_raw, merged_df, summary_df, output>>

\* df[key].astype(str).str.strip(), line 90, on one value.
NormalizeCell(c) == StrCell(Strip(AsStr(c)))

\* normalize_key_column_as_string, lines 88-90.  With two columns named like
\* the key (headers that differ only in whitespace), df[key] is a DataFrame,
\* which has no .str: AttributeError.
normalize_key_column_as_string(df) ==
    [df EXCEPT !.dtype = "object",
               !.key = [i \in 1..Len(df.key) |-> NormalizeCell(df.key[i])]]

NormalizeLeft ==
    /\ pc = "Validated"
    /\ IF Occurrences(left_df.columns, key_column) > 1
       THEN Fail("AttributeError", "left", <<>>, "none") /\ left_df' = left_df
       ELSE /\ left_df' = normalize_key_column_as_string(left_df)
            /\ pc' = "LeftNormalized"
            /\ err' = err
    /\ UNCHANGED <<leftExists, rightExists, parsed, right_df,
                   left_raw, right_raw, merged_df, summary_df, output>>

NormalizeRight ==
    /\ pc = "LeftNormalized"
    /\ IF Occurrences(right_df.columns, key_column) > 1
       THEN Fail("AttributeError", "right", <<>>, "none") /\ right_df' = right_df
       ELSE /\ right_df' = normalize_key_column_as_string(right_df)
            /\ pc' = "Normalized"
            /\ err' = err
    /\ UNCHANGED <<leftExists, rightExists, parsed, left_df,
                   left_raw, right_raw, merged_df, summary_df, output>>

----------------------------------------------------------------------------
\* pd.merge(how="outer", indicator=True), lines 134-141

\* The categories of the _merge column, in pandas' order.
MergeCategories == <<"left_only", "right_only", "both">>

\* A plausible slip: the two one-sided tags are exchanged.
IndicatorSwapped(inLeft, inRight) ==
    IF inLeft /\ inRight THEN "both"
    ELSE IF inLeft THEN "right_only" ELSE "left_only"

\* The indicator of a joined row, from the sides it has a row of.
Indicator(inLeft, inRight) ==
    IF inLeft /\ inRight THEN "both"
    ELSE IF inLeft THEN "left_only" ELSE "right_only"

JoinedRow(k, i, j) ==
    [key |-> k, l |-> i, r |-> j, indicator |-> Indicator(i # 0, j # 0)]

\* A plausible slip: a left join, which drops the rows only the right has.
MergeLeftJoin(l, r) ==
    {JoinedRow(l.key[i].s, i, j) :
        <<i, j>> \in {p \in (1..Len(l.key)) \X (1..Len(r.key)) :
                         l.key[p[1]] = r.key[p[2]]}}
    \cup
    {JoinedRow(l.key[i].s, i, 0) :
        i \in {x \in 1..Len(l.key) :
                  \A j \in 1..Len(r.key) : l.key[x] # r.key[j]}}

\* The outer join on the key: a row for every pair of rows with equal keys,
\* and a row for every row without partner.  A row is named by the positions
\* of the left and the right row it is made of (0: none); the order of the
\* rows is left out.
Merge(l, r) ==
    {JoinedRow(l.key[i].s, i, j) :
        <<i, j>> \in {p \in (1..Len(l.key)) \X (1..Len(r.key)) :
                         l.key[p[1]] = r.key[p[2]]}}
    \cup
    {JoinedRow(l.key[i].s, i, 0) :
        i \in {x \in 1..Len(l.key) :
                  \A j \in 1..Len(r.key) : l.key[x] # r.key[j]}}
    \cup
    {JoinedRow(r.key[j].s, 0, j) :
        j \in {y \in 1..Len(r.key) :
                  \A i \in 1..Len(l.key) : l.key[i] # r.key[y]}}

MergeStep ==
    /\ pc = "Normalized"
    /\ merged_df' = [made |-> TRUE, rows |-> Merge(left_df, right_df)]
    /\ pc' = "Joined"
    /\ UNCHANGED <<leftExists, rightExists, parsed, left_df, right_df,
                   left_raw, right_raw, summary_df, output, err>>

----------------------------------------------------------------------------
\* build_summary, lines 93-99

\* The position of x in the sequence s (0: not in it).
IndexOf(s, x) ==
    IF \E i \in 1..Len(s) : s[i] = x
    THEN CHOOSE i \in 1..Len(s) : s[i] = x /\ \A j \in 1..(i - 1) : s[j] # x
    ELSE 0

\* The place of element i in the stable ascending order of the integers k.
PlaceOf(k, i) ==
    1 + Cardinality({j \in 1..Len(k) : k[j] < k[i] \/ (k[j] = k[i] /\ j < i)})

\* The sequence s sorted by the integers keys[i], stable.  (s and keys are
\* bound as tuples, so that each is evaluated once.)
SortByKeys(s, keys) ==
    CHOOSE sorted \in
        {<<>> \o [p \in 1..Len(v) |->
                    v[CHOOSE i \in 1..Len(v) : PlaceOf(k, i) = p]] :
            v \in {<<>> \o s}, k \in {<<>> \o keys}} : TRUE

CountOf(rows, tag) == Cardinality({row \in rows : row.indicator = tag})

\* The count of every category, in the order of the categories.
CategoryCounts(rows) ==
    [i \in 1..Len(MergeCategories) |->
        [categoria |-> MergeCategories[i],
         quantidade |-> CountOf(rows, MergeCategories[i])]]

\* sort_values(ascending=False) of the counts.
ByFallingCount(counts) ==
    SortByKeys(counts, [i \in 1..Len(counts) |-> 0 - counts[i].quantidade])

Observed(c) == c.quantidade > 0

\* A plausible slip: only the tags that occur are counted.
ValueCountsObserved(rows) ==
    ByFallingCount(SelectSeq(CategoryCounts(rows), Observed))

\* A plausible slip: the row that made the group is not counted.
ValueCountsShort(rows) ==
    ByFallingCount([i \in 1..Len(MergeCategories) |->
        [categoria |-> MergeCategories[i],
         quantidade |-> IF CountOf(rows, MergeCategories[i]) > 1
                        THEN CountOf(rows, MergeCategories[i]) - 1
                        ELSE CountOf(rows, MergeCategories[i])]])

\* Series.value_counts(dropna=False) of the categorical _merge column, line
\* 94: one entry for EVERY category, also those no row carries (count 0),
\* by falling count.
ValueCounts(rows) == ByFallingCount(CategoryCounts(rows))

\* category_order.get(c, 99), lines 96-97.
category_order(c) ==
    CASE c = "both"       -> 0
      [] c = "left_only"  -> 1
      [] c = "right_only" -> 2
      [] OTHER            -> 99

\* The categories of counts["ord"], line 97: Series.map on the categorical
\* column "categoria" maps its categories, in their order: [1, 2, 0].
OrdCategories ==
    [i \in 1..Len(MergeCategories) |-> category_order(MergeCategories[i])]

\* What sort_values compares for the column "ord": the mapping is one-to-one,
\* so "ord" is itself categorical and is sorted by the position of the value
\* among its categories, not by the value.
OrdSortKey(c) == IndexOf(OrdCategories, category_order(c.categoria))

\* What sort_values compares for the categorical column "categoria".
CategoriaSortKey(c) == IndexOf(MergeCategories, c.categoria)

\* sort_values(["ord", "categoria"]), line 98.
SummarySortKey(c) ==
    OrdSortKey(c) * (Len(MergeCategories) + 1) + CategoriaSortKey(c)

build_summary(rows) ==
    LET counts == ValueCounts(rows)
    IN  SortByKeys(counts, [i \in 1..Len(counts) |-> SummarySortKey(counts[i])])

BuildSummaryStep ==
    /\ pc = "Joined"
    /\ summary_df' = [made |-> TRUE, rows |-> build_summary(merged_df.rows)]
    /\ pc' = "Summarized"
    /\ UNCHANGED <<leftExists, rightExists, parsed, left_df, right_df,
                   left_raw, right_raw, merged_df, output, err>>

----------------------------------------------------------------------------
\* save_to_excel, lines 102-109

\* mkdir (line 103) stands before the try: its OSError leaves as it is.  A
\* failure of the writer (lines 105-107) is wrapped in a RuntimeError that
\* names output_path; what it leaves on disk is not defined.
SaveStep ==
    /\ pc = "Summarized"
    /\ \E mkdir \in {"ok", "error"}, writer \in {"ok", "error"} :
          IF mkdir = "error"
          THEN /\ Fail("OSError", "output_parent", <<>>, "none")
               /\ output' = output
          ELSE IF writer = "error"
               THEN /\ Fail("RuntimeError", "output", <<>>, "write")
                    /\ output' \in {NoOutput, [NoOutput EXCEPT !.state = "partial"]}
               ELSE /\ output' = [state |-> "written",
                                  merge |-> merged_df.rows,
                                  summary |-> summary_df.rows]
                    /\ pc' = "Written"
                    /\ err' = err
    /\ UNCHANGED <<leftExists, rightExists, parsed, left_df, right_df,
                   left_raw, right_raw, merged_df, summary_df>>

\* print, lines 146-148.
PrintStep ==
    /\ pc = "Written"
    /\ pc' = "Done"
    /\ UNCHANGED <<leftExists, rightExists, parsed, left_df, right_df,
                   left_raw, right_raw, merged_df, summary_df, output, err>>

Next ==
    \/ CheckInputs
    \/ ReadLeft
    \/ ReadRight
    \/ EnsureLeft
    \/ EnsureRight
    \/ NormalizeLeft
    \/ NormalizeRight
    \/ MergeStep
    \/ BuildSummaryStep
    \/ SaveStep
    \/ PrintStep

Spec == Init /\ [][Next]_vars

\* main is one sequential run: a step that can be taken is taken.
FairSpec == Spec /\ WF_vars(Next)

----------------------------------------------------------------------------
\* Properties

Tags == {"both", "left_only", "right_only"}

Rows == merged_df.rows

\* The normalized keys of a table, and how many rows have the key k.
KeysOf(df) == {df.key[i].s : i \in 1..Len(df.key)}

RowsWithKey(df, k) == Cardinality({i \in 1..Len(df.key) : df.key[i].s = k})

AtLeastOne(n) == IF n >= 1 THEN n ELSE 1

\* The joined table has a row made of left row i and right row j.
Paired(i, j) == \E row \in Rows : row.l = i /\ row.r = j

\* C1: every key that occurs in l left rows and r right rows has exactly
\* max(l,1) * max(r,1) joined rows, one per pairing of a left and a right
\* row with that key; no joined row has a key of neither table; with unique
\* keys the joined table has as many rows as the two tables have keys.
C1_JoinRowMultiplicity ==
    merged_df.made =>
        LET keys == KeysOf(left_df) \cup KeysOf(right_df)
        IN  /\ \A k \in keys :
                  Cardinality({row \in Rows : row.key = k})
                      = AtLeastOne(RowsWithKey(left_df, k))
                            * AtLeastOne(RowsWithKey(right_df, k))
            /\ \A row \in Rows :
                  /\ row.key \in keys
                  /\ row.l \in 0..Len(left_df.key)
                  /\ row.r \in 0..Len(right_df.key)
                  /\ row.l # 0 \/ row.r # 0
                  /\ row.l # 0 => left_df.key[row.l].s = row.key
                  /\ row.r # 0 => right_df.key[row.r].s = row.key
            /\ \A a \in Rows, b \in Rows : a.l = b.l /\ a.r = b.r => a = b
            /\ \A i \in 1..Len(left_df.key), j \in 1..Len(right_df.key) :
                  left_df.key[i].s = right_df.key[j].s => Paired(i, j)
            /\ ( /\ \A k \in keys : RowsWithKey(left_df, k) <= 1
                 /\ \A k \in keys : RowsWithKey(right_df, k) <= 1 )
               => Cardinality(Rows) = Cardinality(keys)

\* A key with two rows on each side: four joined rows.
C1_Witness ==
    /\ merged_df.made
    /\ \E k \in KeysOf(left_df) :
          /\ RowsWithKey(left_df, k) = 2
          /\ RowsWithKey(right_df, k) = 2
          /\ Cardinality({row \in Rows : row.key = k}) = 4
    /\ pc = "Done"

\* C2: every joined row carries exactly one of the three tags: both if and
\* only if its key is in both normalized tables, left_only if and only if
\* it is in the left table only, right_only if and only if in the right only.
C2_Provenance ==
    merged_df.made =>
        \A row \in Rows :
            /\ row.indicator \in Tags
            /\ row.indicator = "both"
                  <=> (row.key \in KeysOf(left_df) /\ row.key \in KeysOf(right_df))
            /\ row.indicator = "left_only"
                  <=> (row.key \in KeysOf(left_df) /\ row.key \notin KeysOf(right_df))
            /\ row.indicator = "right_only"
                  <=> (row.key \notin KeysOf(left_df) /\ row.key \in KeysOf(right_df))

\* All three tags occur in one joined table.
C2_Witness ==
    /\ merged_df.made
    /\ \A tag \in Tags : \E row \in Rows : row.indicator = tag

\* t is s without its leading and trailing whitespace.
IsTrimOf(t, s) ==
    \E a \in 0..Len(s), b \in 0..Len(s) :
        /\ a + b <= Len(s)
        /\ t = SubSeq(s, a + 1, Len(s) - b)
        /\ \A i \in 1..a : s[i] \in Whitespace
        /\ \A i \in (Len(s) - b + 1)..Len(s) : s[i] \in Whitespace
        /\ t # <<>> => (t[1] \notin Whitespace /\ t[Len(t)] \notin Whitespace)

\* The cells c and d have the same trimmed text form.
SameTrimmedText(c, d) ==
    \E a \in 0..Len(AsStr(c)) :
        \E t \in {SubSeq(AsStr(c), a + 1, e) : e \in 0..Len(AsStr(c))} :
            IsTrimOf(t, AsStr(c)) /\ IsTrimOf(t, AsStr(d))

\* The cell c is a text that, trimmed, is the decimal numeral of n.
IsNumeralOf(c, n) == c.t = "str" /\ IsTrimOf(Digits(n), c.s)

\* One cell is a number and the other a text that is its numeral: the two
\* keys differ only in the cell type and in surrounding whitespace.
TextVersusNumber(c, d) ==
    \/ c.t \in {"int", "float"} /\ IsNumeralOf(d, c.n)
    \/ d.t \in {"int", "float"} /\ IsNumeralOf(c, d.n)

\* C3, as claimed: a left and a right row are paired if and only if the
\* trimmed texts of their key cells are equal; keys that differ only in
\* surrounding whitespace or in text versus number are paired; missing keys
\* of the two sides are paired and tagged both.
C3_AsClaimed ==
    merged_df.made =>
        \A i \in 1..Len(left_raw), j \in 1..Len(right_raw) :
            /\ Paired(i, j) <=> SameTrimmedText(left_raw[i], right_raw[j])
            /\ TextVersusNumber(left_raw[i], right_raw[j]) => Paired(i, j)
            /\ (left_raw[i].t = "nan" /\ right_raw[j].t = "nan")
                  => \E row \in Rows :
                        /\ row.l = i /\ row.r = j
                        /\ row.indicator = "both"
                        /\ row.key = <<"n", "a", "n">>

\* C3, amended: a left and a right row are paired if and only if the trimmed
\* texts of their key cells are equal, the text of a number being str() of
\* the value pandas holds: a text is paired with an integer of the same
\* digits, but a float (a number of a float64 column, such as a numeric
\* column with a missing cell) reads "1.0" and is paired with the text "1.0",
\* not with "1"; missing keys of the two sides are paired and tagged both.
C3_KeyMatching ==
    merged_df.made =>
        \A i \in 1..Len(left_raw), j \in 1..Len(right_raw) :
            LET c == left_raw[i]
                d == right_raw[j]
            IN  /\ Paired(i, j) <=> SameTrimmedText(c, d)
                /\ (c.t = "int" /\ IsNumeralOf(d, c.n)) => Paired(i, j)
                /\ (d.t = "int" /\ IsNumeralOf(c, d.n)) => Paired(i, j)
                /\ (c.t = "float" /\ d.t = "str")
                      => (Paired(i, j)
                            <=> IsTrimOf(Digits(c.n) \o <<".", "0">>, d.s))
                /\ (d.t = "float" /\ c.t = "str")
                      => (Paired(i, j)
                            <=> IsTrimOf(Digits(d.n) \o <<".", "0">>, c.s))
                /\ (c.t = "nan" /\ d.t = "nan")
                      => \E row \in Rows :
                            /\ row.l = i /\ row.r = j
                            /\ row.indicator = "both"
                            /\ row.key = <<"n", "a", "n">>

\* A text with whitespace around it is paired with an integer, and a missing
\* key of the left with a missing key of the right.
C3_Witness ==
    /\ merged_df.made
    /\ \E i \in 1..Len(left_raw), j \in 1..Len(right_raw) :
          /\ left_raw[i] = StrCell(<<" ", "1", "\t">>)
          /\ right_raw[j] = IntCell(1)
          /\ Paired(i, j)
    /\ \E i \in 1..Len(left_raw) : left_raw[i].t = "nan"

RECURSIVE SumOfCounts(_)
SumOfCounts(s) ==
    IF s = <<>> THEN 0 ELSE Head(s).quantidade + SumOfCounts(Tail(s))

\* C4: the count the summary reports for a category is the number of joined
\* rows with that tag, and the counts add up to the number of joined rows.
C4_SummaryCounts ==
    summary_df.made =>
        /\ \A i \in 1..Len(summary_df.rows) :
              summary_df.rows[i].quantidade
                  = Cardinality({row \in Rows :
                                    row.indicator = summary_df.rows[i].categoria})
        /\ \A i \in 1..Len(summary_df.rows), j \in 1..Len(summary_df.rows) :
              summary_df.rows[i].categoria = summary_df.rows[j].categoria => i = j
        /\ SumOfCounts(summary_df.rows) = Cardinality(Rows)

\* A summary of a joined table with a tag carried by two rows.
C4_Witness ==
    /\ summary_df.made
    /\ Cardinality(Rows) >= 3
    /\ \E i \in 1..Len(summary_df.rows) : summary_df.rows[i].quantidade >= 2
    /\ \E i \in 1..Len(summary_df.rows) : summary_df.rows[i].quantidade = 1

InSummary(tag) ==
    \E i \in 1..Len(summary_df.rows) : summary_df.rows[i].categoria = tag

\* C5, as claimed: a tag has a summary row if and only if a joined row
\* carries it; no summary row has count 0.
C5_AsClaimed ==
    summary_df.made =>
        /\ \A tag \in Tags :
              InSummary(tag) <=> (\E row \in Rows : row.indicator = tag)
        /\ \A i \in 1..Len(summary_df.rows) : summary_df.rows[i].quantidade # 0

\* C5, amended: the summary has exactly one row for each of the three tags
\* both, left_only and right_only, whether or not a joined row carries it;
\* the row of a tag no joined row carries has count 0.
C5_SummaryRows ==
    summary_df.made =>
        /\ Len(summary_df.rows) = 3
        /\ \A tag \in Tags : InSummary(tag)
        /\ \A i \in 1..Len(summary_df.rows) :
              /\ summary_df.rows[i].categoria \in Tags
              /\ summary_df.rows[i].quantidade = 0
                    <=> ~ \E row \in Rows :
                            row.indicator = summary_df.rows[i].categoria

\* Every key is in both tables: the summary still has its three rows.
C5_Witness ==
    /\ summary_df.made
    /\ Rows # {}
    /\ \A row \in Rows : row.indicator = "both"
    /\ Len(summary_df.rows) = 3

\* C6: the summary rows are in the order both, left_only, right_only.
C6_SummaryOrder ==
    summary_df.made =>
        \A i \in 1..Len(summary_df.rows), j \in 1..Len(summary_df.rows) :
            i < j => category_order(summary_df.rows[i].categoria)
                        < category_order(summary_df.rows[j].categoria)

KeyIn(df) == \E i \in 1..Len(df.columns) : df.columns[i] = <<"MATRICULA">>

\* C7: when a loaded table lacks the key column, the run fails with a
\* missing-key error that lists the columns of the table that lacks it, the
\* left table first, and nothing is normalized, joined, summarized or written.
C7_MissingKeyColumn ==
    (right_df # NoDF /\ (~KeyIn(left_df) \/ ~KeyIn(right_df))) =>
        /\ pc \in {"Loaded", "LeftValidated", "Failed"}
        /\ pc = "LeftValidated" => KeyIn(left_df)
        /\ pc = "Failed" =>
              /\ err.kind = "KeyError"
              /\ err.about = IF ~KeyIn(left_df) THEN "left" ELSE "right"
              /\ err.available = IF ~KeyIn(left_df) THEN left_df.columns
                                 ELSE right_df.columns
        /\ left_df.key = left_raw
        /\ right_df.key = right_raw
        /\ ~merged_df.made
        /\ ~summary_df.made
        /\ output = NoOutput

\* The left table has the key, the right one has the columns ID and SETOR.
C7_Witness ==
    /\ pc = "Failed"
    /\ KeyIn(left_df)
    /\ left_df.key # <<>>
    /\ right_df.columns = << <<"ID">>, <<"SETOR">> >>
    /\ err.kind = "KeyError"
    /\ err.available = << <<"ID">>, <<"SETOR">> >>

\* C8: when an input path does not exist the run fails with a file-not-found
\* error and neither file has been parsed.
C8_MissingInputFile ==
    (~leftExists \/ ~rightExists) =>
        /\ parsed = {}
        /\ left_df = NoDF /\ right_df = NoDF
        /\ pc \in {"Idle", "Failed"}
        /\ pc = "Failed" =>
              /\ err.kind = "FileNotFoundError"
              /\ err.about = IF ~leftExists THEN "left" ELSE "right"

\* The right file is missing and the left one was not read.
C8_Witness ==
    /\ pc = "Failed"
    /\ leftExists /\ ~rightExists
    /\ err.kind = "FileNotFoundError"
    /\ parsed = {}

\* C9: every failure inside save_to_excel, that of creating the directories
\* included, is a write error that wraps its cause and names the destination.
C9_WriterFailure ==
    (pc = "Failed" /\ summary_df.made) =>
        /\ err.kind = "RuntimeError"
        /\ err.about = "output"
        /\ err.cause = "write"

PipelineOrder ==
    <<"Idle", "Checked", "LeftLoaded", "Loaded", "LeftValidated", "Validated",
      "LeftNormalized", "Normalized", "Joined", "Summarized", "Written", "Done">>

Reached(stage) ==
    /\ pc # "Failed"
    /\ IndexOf(PipelineOrder, pc) >= IndexOf(PipelineOrder, stage)

\* What each stage has produced, and nothing of a later stage before it.
StageData ==
    /\ pc \in {PipelineOrder[i] : i \in 1..Len(PipelineOrder)} \cup {"Failed"}
    /\ pc = "Failed" <=> err # NoErr
    /\ Reached("Loaded") => left_df # NoDF /\ right_df # NoDF
    /\ Reached("Validated") => KeyIn(left_df) /\ KeyIn(right_df)
    /\ Reached("Normalized") =>
          /\ \A i \in 1..Len(left_df.key) : left_df.key[i].t = "str"
          /\ \A i \in 1..Len(right_df.key) : right_df.key[i].t = "str"
    /\ Reached("Joined") => merged_df.made
    /\ Reached("Summarized") => summary_df.made
    /\ Reached("Written") => output.state = "written"
    /\ right_df # NoDF => left_df # NoDF
    /\ merged_df.made =>
          (left_df # NoDF /\ right_df # NoDF /\ KeyIn(left_df) /\ KeyIn(right_df))
    /\ summary_df.made => merged_df.made
    /\ output.state = "written" => summary_df.made

\* A step moves the run to the next stage or to Failed; Done and Failed are
\* never left.
PipelineStep ==
    pc' # pc =>
        \/ pc' = "Failed" /\ pc \notin {"Done", "Failed"}
        \/ /\ pc \notin {"Done", "Failed"}
           /\ pc' # "Failed"
           /\ IndexOf(PipelineOrder, pc') = IndexOf(PipelineOrder, pc) + 1

\* C10: the run passes through the stages in their fixed order, a stage is
\* entered only after the earlier ones succeeded, a failure ends the run in
\* Failed with no later step and no retry, and every run ends in Done or
\* Failed.
C10_PipelineOrder ==
    /\ []StageData
    /\ [][PipelineStep]_vars
    /\ [][pc \notin {"Done", "Failed"}]_vars
    /\ <>(pc \in {"Done", "Failed"})

\* A run that went through every stage.
C10_Witness ==
    /\ pc = "Done"
    /\ output.state = "written"
    /\ Rows # {}

====
